---- MODULE Spec2Model ----
(***************************************************************************)
(* Verification model of the YouTranser batch transcoder.                  *)
(*                                                                         *)
(* Part I  - the job controller of the main window: the task list, the    *)
(*           scheduling pass StartTranscodeClickListenerInternal, the     *)
(*           worker threads (TranscodeTaskThread) and the queued signals   *)
(*           they post to the main thread.                                *)
(* Part II - one transcode run, EyerAVTranscode::Transcode: the            *)
(*           interleaved video / audio bursts, the flush sequence and the  *)
(*           muxer calls.                                                  *)
(***************************************************************************)
EXTENDS Integers, Sequences, FiniteSets, TLC

(***************************************************************************)
(* Bounds of the model.                                                    *)
(***************************************************************************)
\* tasks that can be added to the task list
MaxJobs == 2
\* largest value of "同时进行任务数" the configuration dialog is given here
MaxCap == 2
\* queued worker signals not yet delivered to the main thread
MaxEvents == 2

VARIABLES
    \* ---- Part I: controller
    layout,        \* ui->task_list_content_layout: the TaskItems, in insertion order
    status,        \* EyerAVTranscoderStatus of every TaskItem ever created
    cap,           \* params.GetTransNumSametime()
    outputDirSet,  \* params.GetOutputDir() is not empty
    events,        \* queued signals OnTaskSuccess / OnTaskFail, worker -> main thread
    wk,            \* the QThread of a TaskItem: "idle", "run", "reported"
    pcMain,        \* main thread: "idle" or inside the scheduling "pass"
    trigger,       \* the handler that entered the pass: "click", "succ", "fail"
    hist,          \* history of a task: "fresh", "started", "reset", "restarted",
                   \* "stopped" (removed while its thread was running)
    clicked,       \* history: the start button was pressed
    \* ---- Part II: one run of EyerAVTranscode::Transcode
    tpc,           \* position of the run
    params,        \* EyerAVTranscodeParams: careVideo, careAudio, fps
    input,         \* the source file: hasVideo, hasAudio, dur (video, half seconds)
    codec,         \* what the codec library decided: time bases, delays
    frameCount,    \* total number of video frames
    frameOffset,   \* index of the next video frame
    limitHalf,     \* limitTime, counted in half seconds
    ret,           \* retVideo and retAudio of the current iteration
    streamIdx,     \* encoderVideoStreamIndex / encoderAudioStreamIndex
    encq,          \* frames (their pts) inside the video / audio encoder
    adec,          \* decoded audio not yet returned by the audio decoder
    rbuf,          \* samples buffered in the resampler
    audioOffset,   \* audioOffset
    reads,         \* packets read from audioReader so far
    muxLog,        \* the calls the writer has received, in order
    aSubmitted,    \* history: pts of the frames given to the audio encoder
    decNull,       \* audioDecoder.SendPacketNull has been called
    nullCalls,     \* history: SendPacketNull calls, each followed by a drain
    sentAfterNull, \* history: a packet was sent to the audio decoder after that
    vSubmitted,    \* history: index of every frame given to the video encoder
    fetchFailed,   \* history: decoderBox.GetFrame has failed
    result,        \* what Transcode() returned, "none" while it runs
    cancelAt,      \* history: limitHalf when the stop was requested, -1 if never
    pulled,        \* history: full frames the resampler has returned (GetFrame)
    encNull,       \* history: SendFrameNull calls each encoder has received
    \* ---- Part III: one call of EyerAVReader::Read
    rd,            \* the call: the pts and start_time av_read_frame found, the
                   \* overload that ran, the pts of the packet it returned
    \* ---- Part IV: the configuration of one TaskItem and its worker
    jc,            \* the parameters of the window, of the TaskItem, of its
                   \* thread and of the transcoder, the task's status and thread
    \* ---- Part V: one audio EyerAVEncoder
    en,            \* its parameters, codecContext->time_base, what Init returned
                   \* and what GetTimebase gave
    \* ---- Part VI: TranscodeTaskThread::Stop against the worker thread
    sj,            \* interruptFlagMut, interruptFlag, where Stop() and the
                   \* worker stand, and the last poll of interrupt()
    \* ---- Part VII: YouTransConfig written to the settings and read back
    cf             \* the parameters, their JSON text and the parsed parameters

cvars == <<layout, status, cap, outputDirSet, events, wk, pcMain, trigger, hist, clicked>>
tvars == <<tpc, params, input, codec, frameCount, frameOffset, limitHalf, ret,
           streamIdx, encq, adec, rbuf, audioOffset, reads, muxLog, aSubmitted,
           decNull, nullCalls, sentAfterNull, vSubmitted, fetchFailed, result, cancelAt,
           pulled, encNull>>
vars == <<cvars, tvars, rd, jc, en, sj, cf>>

JobIds == 1..MaxJobs
PREPARE == "PREPARE"
ING == "ING"
SUCC == "SUCC"
FAIL == "FAIL"
\* a TaskItem that has not been created yet
NONE == "NONE"

InLayout(id) == \E i \in 1..Len(layout) : layout[i] = id

\* the counting loops of the scheduling pass
CountStatus(s) == Cardinality({i \in 1..Len(layout) : status[layout[i]] = s})

\* TaskItems created so far (insertion order is the id order)
Created == {id \in JobIds : status[id] # NONE}

\* history bookkeeping: a start, and an explicit reset of a task that has run
AfterStart(h) == IF h = "fresh" THEN "started" ELSE "restarted"
AfterReset(h) == IF h = "fresh" THEN "fresh" ELSE "reset"

RECURSIVE RemoveWidget(_, _)
RemoveWidget(seq, id) ==
    IF seq = <<>> THEN <<>>
    ELSE IF Head(seq) = id THEN Tail(seq)
    ELSE <<Head(seq)>> \o RemoveWidget(Tail(seq), id)

(***************************************************************************)
(* Initial state: the window after construction, no task in the list.     *)
(***************************************************************************)
CInit ==
    /\ layout = <<>>
    /\ status = [id \in JobIds |-> NONE]
    /\ cap \in 1..MaxCap
    /\ outputDirSet \in BOOLEAN
    /\ events = <<>>
    /\ wk = [id \in JobIds |-> "idle"]
    /\ pcMain = "idle"
    /\ trigger = "none"
    /\ hist = [id \in JobIds |-> "fresh"]
    /\ clicked = FALSE

(***************************************************************************)
(* SetInputPathClickListener: one TaskItem per chosen file, appended.     *)
(***************************************************************************)
SetInputPathClickListener ==
    /\ pcMain = "idle"
    /\ Cardinality(Created) < MaxJobs
    /\ LET id == Cardinality(Created) + 1 IN
        /\ status' = [status EXCEPT ![id] = PREPARE]
        /\ layout' = Append(layout, id)
    /\ UNCHANGED <<cap, outputDirSet, events, wk, pcMain, trigger, hist, clicked, tvars, rd, jc, en, sj, cf>>

(***************************************************************************)
(* SetOutputPathClickListener: a non-empty directory was chosen.          *)
(***************************************************************************)
SetOutputPathClickListener ==
    /\ pcMain = "idle"
    /\ outputDirSet' = TRUE
    /\ UNCHANGED <<layout, status, cap, events, wk, pcMain, trigger, hist, clicked, tvars, rd, jc, en, sj, cf>>

(***************************************************************************)
(* OnConfigWindowsClose: params is replaced by the dialog's parameters;   *)
(* the dialog's spin box gives any value from 1 up.                       *)
(***************************************************************************)
OnConfigWindowsClose ==
    /\ pcMain = "idle"
    /\ \E n \in 1..MaxCap : cap' = n
    /\ UNCHANGED <<layout, status, outputDirSet, events, wk, pcMain, trigger, hist, clicked, tvars, rd, jc, en, sj, cf>>

(***************************************************************************)
(* The two early returns of StartTranscodeClickListenerInternal: with an  *)
(* empty output directory or an empty task list the loop is not entered.  *)
(***************************************************************************)
InternalEntryAnyDir == IF Len(layout) > 0 THEN "pass" ELSE "idle"
InternalEntry == IF outputDirSet /\ Len(layout) > 0 THEN "pass" ELSE "idle"

(***************************************************************************)
(* StartTranscodeClickListener: every FAIL task of the list is put back   *)
(* to PREPARE, then the scheduling pass is entered.                       *)
(***************************************************************************)
ResetStatusAll(s) == IF s \in {FAIL, SUCC} THEN PREPARE ELSE s
ResetStatus(s) == IF s = FAIL THEN PREPARE ELSE s

StartTranscodeClickListener ==
    /\ pcMain = "idle"
    /\ status' = [id \in JobIds |->
                    IF InLayout(id) THEN ResetStatus(status[id]) ELSE status[id]]
    /\ hist' = [id \in JobIds |->
                    IF InLayout(id) /\ status[id] # ResetStatus(status[id])
                    THEN AfterReset(hist[id]) ELSE hist[id]]
    /\ pcMain' = InternalEntry
    /\ trigger' = IF InternalEntry = "pass" THEN "click" ELSE "none"
    /\ clicked' = TRUE
    /\ UNCHANGED <<layout, cap, outputDirSet, events, wk, tvars, rd, jc, en, sj, cf>>

(***************************************************************************)
(* TaskItem::StartTask.  The outcome is what the file system answers:     *)
(* "ok", "openfail" (the input cannot be opened to read its pixel format) *)
(* or "exists" (the output file is already there).  QThread::start() does *)
(* nothing when the thread's run() has not returned yet.                  *)
(***************************************************************************)
StartOutcomes == {"ok", "openfail", "exists"}

StartTask(id, outcome) ==
    IF outcome = "ok"
    THEN /\ status' = [status EXCEPT ![id] = ING]
         /\ wk' = [wk EXCEPT ![id] = IF @ = "idle" THEN "run" ELSE @]
         /\ hist' = [hist EXCEPT ![id] = AfterStart(@)]
    ELSE /\ status' = [status EXCEPT ![id] = FAIL]
         /\ UNCHANGED <<wk, hist>>

(***************************************************************************)
(* The task the pass starts: the first one of the list whose status the   *)
(* selection loop accepts.                                                 *)
(***************************************************************************)
StartableAny(s) == s \in {PREPARE, SUCC, FAIL}
Startable(s) == s = PREPARE

FirstStartable ==
    LET idx == {i \in 1..Len(layout) : Startable(status[layout[i]])}
    IN layout[CHOOSE i \in idx : \A j \in idx : i <= j]
LastStartable ==
    LET idx == {i \in 1..Len(layout) : Startable(status[layout[i]])}
    IN layout[CHOOSE i \in idx : \A j \in idx : i >= j]

PickTask == FirstStartable

(***************************************************************************)
(* The loop's exit test after the three counts.                           *)
(***************************************************************************)
\* a pass that gives up once a task of the list is FAIL
PassStopsOnFail ==
    CountStatus(PREPARE) <= 0 \/ CountStatus(ING) >= cap \/ CountStatus(FAIL) > 0
PassStopsIgnoringCap == CountStatus(PREPARE) <= 0
PassStops == CountStatus(PREPARE) <= 0 \/ CountStatus(ING) >= cap

(***************************************************************************)
(* One iteration of the while(1) loop of                                  *)
(* StartTranscodeClickListenerInternal.  Worker threads run between the   *)
(* iterations.                                                             *)
(***************************************************************************)
StartTranscodeClickListenerInternal ==
    /\ pcMain = "pass"
    /\ IF PassStops
       THEN /\ pcMain' = "idle"
            /\ trigger' = "none"
            /\ UNCHANGED <<status, wk, hist>>
       ELSE /\ \E outcome \in StartOutcomes : StartTask(PickTask, outcome)
            /\ UNCHANGED <<pcMain, trigger>>
    /\ UNCHANGED <<layout, cap, outputDirSet, events, clicked, tvars, rd, jc, en, sj, cf>>

(***************************************************************************)
(* The worker thread of a task, TranscodeTaskThread::run.  The transcoder *)
(* sets the terminal status and calls the listener, which posts the       *)
(* queued signal; run() returns afterwards.                                *)
(***************************************************************************)
WorkerSuccess(id) ==
    /\ wk[id] = "run"
    /\ Len(events) < MaxEvents
    /\ status' = [status EXCEPT ![id] = SUCC]
    /\ events' = Append(events, "succ")
    /\ wk' = [wk EXCEPT ![id] = "reported"]
    /\ UNCHANGED <<layout, cap, outputDirSet, pcMain, trigger, hist, clicked, tvars, rd, jc, en, sj, cf>>

WorkerFail(id) ==
    /\ wk[id] = "run"
    /\ Len(events) < MaxEvents
    /\ status' = [status EXCEPT ![id] = FAIL]
    /\ events' = Append(events, "fail")
    /\ wk' = [wk EXCEPT ![id] = "reported"]
    /\ UNCHANGED <<layout, cap, outputDirSet, pcMain, trigger, hist, clicked, tvars, rd, jc, en, sj, cf>>

WorkerExit(id) ==
    /\ wk[id] = "reported"
    /\ wk' = [wk EXCEPT ![id] = "idle"]
    /\ UNCHANGED <<layout, status, cap, outputDirSet, events, pcMain, trigger, hist, clicked, tvars, rd, jc, en, sj, cf>>

(***************************************************************************)
(* The main window's slots for the queued signals: both enter the         *)
(* scheduling pass, neither resets anything.                               *)
(***************************************************************************)
TerminalSlotWithReset(kind) ==
    /\ status' = [id \in JobIds |->
                    IF InLayout(id) THEN ResetStatus(status[id]) ELSE status[id]]
    /\ hist' = hist
    /\ pcMain' = InternalEntry
    /\ trigger' = IF InternalEntry = "pass" THEN kind ELSE "none"
TerminalSlotNoPass(kind) ==
    /\ pcMain' = "idle"
    /\ UNCHANGED <<status, hist, trigger>>
TerminalSlotFailOnly(kind) ==
    /\ pcMain' = IF kind = "fail" THEN InternalEntry ELSE "idle"
    /\ trigger' = IF kind = "fail" /\ InternalEntry = "pass" THEN kind ELSE "none"
    /\ UNCHANGED <<status, hist>>
TerminalSlot(kind) ==
    /\ pcMain' = InternalEntry
    /\ trigger' = IF InternalEntry = "pass" THEN kind ELSE "none"
    /\ UNCHANGED <<status, hist>>

TaskItem_OnTaskSuccess ==
    /\ pcMain = "idle"
    /\ events # <<>>
    /\ Head(events) = "succ"
    /\ events' = Tail(events)
    /\ TerminalSlot("succ")
    /\ UNCHANGED <<layout, cap, outputDirSet, wk, clicked, tvars, rd, jc, en, sj, cf>>

TaskItem_OnTaskFail ==
    /\ pcMain = "idle"
    /\ events # <<>>
    /\ Head(events) = "fail"
    /\ events' = Tail(events)
    /\ TerminalSlot("fail")
    /\ UNCHANGED <<layout, cap, outputDirSet, wk, clicked, tvars, rd, jc, en, sj, cf>>

(***************************************************************************)
(* TaskItem_OnRemove: Stop() sets the interrupt flag and waits for run()  *)
(* to return, then the widget leaves the list.  A worker that is still    *)
(* transcoding ends its job on the way (cancelled, shown as FAIL, or just *)
(* finished).                                                              *)
(***************************************************************************)
StopResults(id) ==
    IF wk[id] = "run"
    THEN {[st |-> FAIL, ev |-> <<"fail">>], [st |-> SUCC, ev |-> <<"succ">>]}
    ELSE {[st |-> status[id], ev |-> <<>>]}

TaskItem_OnRemove(id) ==
    /\ pcMain = "idle"
    /\ InLayout(id)
    /\ \E r \in StopResults(id) :
        /\ Len(events) + Len(r.ev) <= MaxEvents
        /\ status' = [status EXCEPT ![id] = r.st]
        /\ events' = events \o r.ev
    /\ wk' = [wk EXCEPT ![id] = "idle"]
    /\ layout' = RemoveWidget(layout, id)
    /\ hist' = [hist EXCEPT ![id] = IF wk[id] = "run" THEN "stopped" ELSE @]
    /\ UNCHANGED <<cap, outputDirSet, pcMain, trigger, clicked, tvars, rd, jc, en, sj, cf>>

(***************************************************************************)
(*                                                                         *)
(*              Part II: one run of EyerAVTranscode::Transcode             *)
(*                                                                         *)
(***************************************************************************)
\* largest params.fps
MaxFps == 2
\* longest video stream, in half seconds
MaxDur == 3
\* packets audioReader returns before the end of the file
MaxReads == 3
\* a long source: its video stream in half seconds, and its packets
LongDur == 8
LongReads == 6
\* frames an encoder holds back before it returns packets
MaxDelay == 1
\* SendPacketNull calls are counted up to this number
MaxNullCalls == 2
CountNull(n) == IF n < MaxNullCalls THEN n + 1 ELSE n

\* the audio pipeline is fixed to MP3, 44100 Hz: InitMP3(..., 44100)
SampleRate == 44100
\* audioEncoder.GetFrameSize() of the MP3 encoder
FrameSize == 1152
\* encodeTimebase.den of the video encoder
VideoTbDen == 1000

\* packets the audio decoder holds back before it returns frames
DecoderDelays == {0, 1}

\* resampled samples one audio packet may decode to
PktSamples == {10 * FrameSize, 12000}

\* time bases the writer may give the two streams (the muxer decides):
\* "clock": a 90 kHz clock for video, milliseconds for audio;
\* "frame": coarse ticks, one second for video (longer than the interval
\* of two frames at 2 fps and more, as the 1/100 s of some muxers is at
\* more than 100 fps), one MP3 frame for audio
Muxers == {"clock", "frame"}
WriterTimebase(m, kind) ==
    IF m = "clock"
    THEN (IF kind = "v" THEN [num |-> 1, den |-> 90000]
                        ELSE [num |-> 1, den |-> 1000])
    ELSE (IF kind = "v" THEN [num |-> 1, den |-> 1]
                        ELSE [num |-> FrameSize, den |-> SampleRate])

\* videoEncoder.GetTimebase() / audioEncoder.GetTimebase()
EncoderTimebase(kind) ==
    IF kind = "v" THEN [num |-> 1, den |-> VideoTbDen]
                  ELSE [num |-> 1, den |-> SampleRate]

Max(a, b) == IF a >= b THEN a ELSE b

RECURSIVE Gcd(_, _)
Gcd(a, b) == IF b = 0 THEN a ELSE Gcd(b, a % b)

(***************************************************************************)
(* av_rescale_q as av_packet_rescale_ts uses it: a * bq / cq, rounded to  *)
(* the nearest integer, halves away from zero.  The library computes the  *)
(* product exactly; the fraction is reduced here so that the product      *)
(* stays inside the integers of the model checker.                         *)
(***************************************************************************)
AvRescale(a, bq, cq) ==
    LET g == Gcd(bq.num * cq.den, bq.den * cq.num)
        b == (bq.num * cq.den) \div g
        c == (bq.den * cq.num) \div g
    IN  IF a >= 0 THEN (2 * a * b + c) \div (2 * c)
                  ELSE -((2 * (-a) * b + c) \div (2 * c))

\* a rescale that moves the pts only
RescaleTsPtsOnly(pkt, from, to) ==
    [pkt EXCEPT !.pts = AvRescale(pkt.pts, from, to),
                !.tb = to,
                !.nresc = @ + 1]
\* EyerAVPacket::RescaleTs: pts and dts move to the stream time base
RescaleTs(pkt, from, to) ==
    [pkt EXCEPT !.pts = AvRescale(pkt.pts, from, to),
                !.dts = AvRescale(pkt.dts, from, to),
                !.tb = to,
                !.nresc = @ + 1]

\* EyerAVPacket::SetStreamIndex
SetStreamIndex(pkt, i) == [pkt EXCEPT !.idx = i]

(***************************************************************************)
(* The encoders (codec library).  A frame given to an encoder comes back  *)
(* as one packet, in the order given, once the encoder holds more than    *)
(* codec.encDelay frames; its dts is the frame's pts moved back by the    *)
(* held-back frames.  A packet leaves the encoder in the encoder's time   *)
(* base and with the stream index the library sets, 0.                    *)
(***************************************************************************)
FrameTicks(kind) == IF kind = "v" THEN VideoTbDen \div params.fps ELSE FrameSize
EncPacket(kind, framePts) ==
    [op |-> "packet", kind |-> kind, idx |-> 0,
     pts |-> framePts, dts |-> framePts - codec.encDelay * FrameTicks(kind),
     encDts |-> framePts - codec.encDelay * FrameTicks(kind),
     tb |-> EncoderTimebase(kind), nresc |-> 0]
MuxCall(name) ==
    [op |-> name, kind |-> "-", idx |-> -1, pts |-> 0, dts |-> 0, encDts |-> 0,
     tb |-> [num |-> 0, den |-> 1], nresc |-> 0]

\* frames q holds, then frames fs are sent one by one, each SendFrame
\* followed by the RecvPacket loop: what comes out, and what stays inside
EncOut(q, fs) == SubSeq(q \o fs, 1, Max(0, Len(q \o fs) - codec.encDelay))
EncKeep(q, fs) == SubSeq(q \o fs, Max(0, Len(q \o fs) - codec.encDelay) + 1, Len(q \o fs))

(***************************************************************************)
(* The four places that hand a packet to writer.WritePacket.              *)
(***************************************************************************)
WriteVideoBurst(framePts) ==
    RescaleTs(SetStreamIndex(EncPacket("v", framePts), streamIdx.v),
              EncoderTimebase("v"), WriterTimebase(codec.muxer, "v"))
WriteVideoFlushNoRescale(framePts) ==
    SetStreamIndex(EncPacket("v", framePts), streamIdx.v)
WriteVideoFlush(framePts) ==
    RescaleTs(SetStreamIndex(EncPacket("v", framePts), streamIdx.v),
              EncoderTimebase("v"), WriterTimebase(codec.muxer, "v"))
WriteAudioEncode(framePts) ==
    RescaleTs(SetStreamIndex(EncPacket("a", framePts), streamIdx.a),
              EncoderTimebase("a"), WriterTimebase(codec.muxer, "a"))
WriteAudioFlushVideoIndex(framePts) ==
    RescaleTs(SetStreamIndex(EncPacket("a", framePts), streamIdx.v),
              EncoderTimebase("a"), WriterTimebase(codec.muxer, "a"))
WriteAudioFlush(framePts) ==
    RescaleTs(SetStreamIndex(EncPacket("a", framePts), streamIdx.a),
              EncoderTimebase("a"), WriterTimebase(codec.muxer, "a"))

\* the sequence of frame pts fs, each written by W
MapWrite(W(_), fs) == [i \in 1..Len(fs) |-> W(fs[i])]

(***************************************************************************)
(* The state before Transcode() is called: the parameters and the source  *)
(* file are given, nothing is open.                                        *)
(***************************************************************************)
TInit ==
    /\ tpc = "begin"
    /\ params \in [careVideo : BOOLEAN, careAudio : BOOLEAN, fps : 1..MaxFps]
    /\ input \in {i \in [hasVideo : BOOLEAN, hasAudio : BOOLEAN, dur : 0..MaxDur,
                         pkts : {MaxReads}] :
                    /\ i.hasVideo \/ i.hasAudio
                    /\ ~i.hasVideo => i.dur = 0}
    /\ codec = [muxer |-> "clock", encDelay |-> 0, decDelay |-> 0]
    /\ frameCount = 0
    /\ frameOffset = 0
    /\ limitHalf = 0
    /\ ret = [v |-> -1, a |-> -1]
    /\ streamIdx = [v |-> -1, a |-> -1]
    /\ encq = [v |-> <<>>, a |-> <<>>]
    /\ adec = <<>>
    /\ rbuf = 0
    /\ audioOffset = 0
    /\ reads = 0
    /\ muxLog = <<>>
    /\ aSubmitted = <<>>
    /\ decNull = FALSE
    /\ nullCalls = 0
    /\ sentAfterNull = FALSE
    /\ vSubmitted = <<>>
    /\ fetchFailed = FALSE
    /\ result = "none"
    /\ cancelAt = -1
    /\ pulled = 0
    /\ encNull = [v |-> 0, a |-> 0]

\* the state before Transcode() is called for a long source with both
\* streams
TInitLong ==
    /\ tpc = "begin"
    /\ params \in [careVideo : BOOLEAN, careAudio : BOOLEAN, fps : 1..MaxFps]
    /\ input = [hasVideo |-> TRUE, hasAudio |-> TRUE, dur |-> LongDur,
                pkts |-> LongReads]
    /\ codec = [muxer |-> "clock", encDelay |-> 0, decDelay |-> 0]
    /\ frameCount = 0
    /\ frameOffset = 0
    /\ limitHalf = 0
    /\ ret = [v |-> -1, a |-> -1]
    /\ streamIdx = [v |-> -1, a |-> -1]
    /\ encq = [v |-> <<>>, a |-> <<>>]
    /\ adec = <<>>
    /\ rbuf = 0
    /\ audioOffset = 0
    /\ reads = 0
    /\ muxLog = <<>>
    /\ aSubmitted = <<>>
    /\ decNull = FALSE
    /\ nullCalls = 0
    /\ sentAfterNull = FALSE
    /\ vSubmitted = <<>>
    /\ fetchFailed = FALSE
    /\ result = "none"
    /\ cancelAt = -1
    /\ pulled = 0
    /\ encNull = [v |-> 0, a |-> 0]

\* the run is not part of the controller's model
TIdle ==
    /\ tpc = "off"
    /\ params = [careVideo |-> FALSE, careAudio |-> FALSE, fps |-> 1]
    /\ input = [hasVideo |-> FALSE, hasAudio |-> FALSE, dur |-> 0, pkts |-> 0]
    /\ codec = [muxer |-> "clock", encDelay |-> 0, decDelay |-> 0]
    /\ frameCount = 0
    /\ frameOffset = 0
    /\ limitHalf = 0
    /\ ret = [v |-> -1, a |-> -1]
    /\ streamIdx = [v |-> -1, a |-> -1]
    /\ encq = [v |-> <<>>, a |-> <<>>]
    /\ adec = <<>>
    /\ rbuf = 0
    /\ audioOffset = 0
    /\ reads = 0
    /\ muxLog = <<>>
    /\ aSubmitted = <<>>
    /\ decNull = FALSE
    /\ nullCalls = 0
    /\ sentAfterNull = FALSE
    /\ vSubmitted = <<>>
    /\ fetchFailed = FALSE
    /\ result = "none"
    /\ cancelAt = -1
    /\ pulled = 0
    /\ encNull = [v |-> 0, a |-> 0]

(***************************************************************************)
(* InitEncoder: a stream is added to the writer for a kind that the       *)
(* source has and the parameters care about; AddStream returns the next   *)
(* free index.                                                             *)
(***************************************************************************)
\* writer.AddStream: the index of the new stream, n streams added before
AddStream(n) == n
\* a stream for every kind the source has, wanted or not
InitEncoderEveryKind ==
    [v |-> IF input.hasVideo THEN AddStream(0) ELSE streamIdx.v,
     a |-> IF input.hasAudio THEN AddStream(IF input.hasVideo THEN 1 ELSE 0)
                             ELSE streamIdx.a]
InitEncoder ==
    LET addV == input.hasVideo /\ params.careVideo
        addA == input.hasAudio /\ params.careAudio
        v == IF addV THEN AddStream(0) ELSE streamIdx.v
    IN  [v |-> v,
         a |-> IF addA THEN AddStream(IF addV THEN 1 ELSE 0) ELSE streamIdx.a]

(***************************************************************************)
(* The total number of frames: frameCount = videoDuration * params.fps,   *)
(* a double stored into an integer, at least 1.                            *)
(***************************************************************************)
FrameCountOf(dur, fps) ==
    IF (dur * fps) \div 2 <= 0 THEN 1 ELSE (dur * fps) \div 2

(***************************************************************************)
(* Transcode(), up to the interleave loop: writer.Open, InitEncoder,      *)
(* writer.WriteHand, InitDeocder, resample.Init, frameCount.               *)
(***************************************************************************)
\* the muxers and codecs a run can be built with
Codecs == [muxer : Muxers, encDelay : 0..MaxDelay, decDelay : DecoderDelays]
TranscodeBeginIn(cs) ==
    /\ tpc = "begin"
    /\ \E c \in cs : codec' = c
    /\ streamIdx' = InitEncoder
    /\ muxLog' = <<MuxCall("open"), MuxCall("header")>>
    /\ frameCount' = IF input.hasVideo THEN FrameCountOf(input.dur, params.fps)
                                       ELSE frameCount
    /\ tpc' = "iter"
    /\ UNCHANGED <<params, input, frameOffset, limitHalf, ret, encq, adec, rbuf,
                   audioOffset, reads, aSubmitted, decNull, nullCalls, sentAfterNull,
                   vSubmitted, fetchFailed, result, cancelAt, pulled, encNull,
                   cvars, rd, jc, en, sj, cf>>
TranscodeBegin == TranscodeBeginIn(Codecs)

(***************************************************************************)
(* The head of one iteration of the interleave loop: limitTime += 0.5,    *)
(* and the entry test of TranscodeVideo.                                   *)
(***************************************************************************)
IterBegin ==
    /\ tpc = "iter"
    /\ limitHalf' = limitHalf + 1
    /\ IF params.careVideo /\ frameOffset < frameCount
       THEN tpc' = "video" /\ ret' = [v |-> 0, a |-> -1]
       ELSE tpc' = "audio" /\ ret' = [v |-> -1, a |-> -1]
    /\ UNCHANGED <<params, input, codec, frameCount, frameOffset, streamIdx, encq,
                   adec, rbuf, audioOffset, reads, muxLog, aSubmitted, decNull, nullCalls, sentAfterNull,
                   vSubmitted, fetchFailed, result, cancelAt, pulled, encNull,
                   cvars, rd, jc, en, sj, cf>>

\* pts of frame f in milliseconds: distFrame.SetPTS(pts * 1000)
VideoPtsMs(f) == (f * 1000) \div params.fps
\* pts > limitTime, with pts = f / fps seconds
PastLimitLate(f) == 2 * f > limitHalf * params.fps + params.fps
PastLimit(f) == 2 * f > limitHalf * params.fps

(***************************************************************************)
(* One turn of the while(1) loop of TranscodeVideo: fetch the frame at    *)
(* pts, scale, encode, write what the encoder returns, test the limit.    *)
(* decoderBox.GetFrame may fail.                                           *)
(***************************************************************************)
TranscodeVideoFrame ==
    /\ tpc = "video"
    /\ \E got \in BOOLEAN :
        IF ~got
        THEN /\ ret' = [ret EXCEPT !.v = -1]
             /\ tpc' = "audio"
             /\ fetchFailed' = TRUE
             /\ UNCHANGED <<encq, muxLog, frameOffset, vSubmitted>>
        ELSE /\ encq' = [encq EXCEPT !.v = EncKeep(@, <<VideoPtsMs(frameOffset)>>)]
             /\ muxLog' = muxLog \o
                    MapWrite(WriteVideoBurst, EncOut(encq.v, <<VideoPtsMs(frameOffset)>>))
             /\ vSubmitted' = Append(vSubmitted, frameOffset)
             /\ frameOffset' = frameOffset + 1
             /\ IF PastLimit(frameOffset)
                THEN ret' = [ret EXCEPT !.v = 0] /\ tpc' = "audio"
                ELSE UNCHANGED <<ret, tpc>>
             /\ UNCHANGED fetchFailed
    /\ UNCHANGED <<params, input, codec, frameCount, limitHalf, streamIdx, adec, rbuf,
                   audioOffset, reads, aSubmitted, decNull, nullCalls, sentAfterNull, result,
                   cancelAt, pulled, encNull,
                   cvars, rd, jc, en, sj, cf>>

(***************************************************************************)
(* The resampler and the inner GetFrame loop: samples n arrive, every     *)
(* full frame gets pts = audioOffset, audioOffset += frame size, and is   *)
(* encoded (EncodeAudio).                                                  *)
(***************************************************************************)
FullFrames(n) == (rbuf + n) \div FrameSize
FramePtsStale(n) == [i \in 1..FullFrames(n) |-> audioOffset]
FramePts(n) == [i \in 1..FullFrames(n) |-> audioOffset + (i - 1) * FrameSize]

\* n resampled samples go through resample / encode / write
AudioFeed(n) ==
    /\ rbuf' = (rbuf + n) % FrameSize
    /\ audioOffset' = audioOffset + FullFrames(n) * FrameSize
    /\ pulled' = pulled + FullFrames(n)
    /\ aSubmitted' = aSubmitted \o FramePts(n)
    /\ encq' = [encq EXCEPT !.a = EncKeep(@, FramePts(n))]
    /\ muxLog' = muxLog \o MapWrite(WriteAudioEncode, EncOut(encq.a, FramePts(n)))

RECURSIVE SumSeq(_)
SumSeq(q) == IF q = <<>> THEN 0 ELSE Head(q) + SumSeq(Tail(q))

(***************************************************************************)
(* One turn of the while(1) loop of TranscodeAudio: read a packet; at the *)
(* end of the file drain the decoder and return -1; skip a packet of      *)
(* another stream; otherwise decode, resample, encode, and return 0 when  *)
(* the audio position has passed the limit.                                *)
(***************************************************************************)
AudioEnter ==
    /\ tpc = "audio"
    /\ ~params.careAudio
    /\ tpc' = "test"
    /\ UNCHANGED <<params, input, codec, frameCount, frameOffset, limitHalf, ret,
                   streamIdx, encq, adec, rbuf, audioOffset, reads, muxLog,
                   aSubmitted, decNull, nullCalls, sentAfterNull,
                   vSubmitted, fetchFailed, result, cancelAt, pulled, encNull,
                   cvars, rd, jc, en, sj, cf>>

\* audioReader.Read fails at the end of the file, and on every later call
TranscodeAudioEof ==
    /\ tpc = "audio"
    /\ params.careAudio
    /\ AudioFeed(SumSeq(adec))
    /\ adec' = <<>>
    /\ decNull' = TRUE
    /\ nullCalls' = CountNull(nullCalls)
    /\ reads' = input.pkts
    /\ ret' = [ret EXCEPT !.a = -1]
    /\ tpc' = "test"
    /\ UNCHANGED <<params, input, codec, frameCount, frameOffset, limitHalf, streamIdx,
                   sentAfterNull, vSubmitted, fetchFailed, result, cancelAt, encNull,
                   cvars, rd, jc, en, sj, cf>>

\* audioReader.Read fails before the end of the file (av_read_frame returns
\* an error for one packet); the same branch runs, later reads can succeed
TranscodeAudioReadError ==
    /\ tpc = "audio"
    /\ params.careAudio
    /\ reads < input.pkts
    /\ AudioFeed(SumSeq(adec))
    /\ adec' = <<>>
    /\ decNull' = TRUE
    /\ nullCalls' = CountNull(nullCalls)
    /\ reads' = reads + 1
    /\ ret' = [ret EXCEPT !.a = -1]
    /\ tpc' = "test"
    /\ UNCHANGED <<params, input, codec, frameCount, frameOffset, limitHalf, streamIdx,
                   sentAfterNull, vSubmitted, fetchFailed, result, cancelAt, encNull,
                   cvars, rd, jc, en, sj, cf>>

TranscodeAudioSkip ==
    /\ tpc = "audio"
    /\ params.careAudio
    /\ reads < input.pkts
    /\ input.hasVideo
    /\ reads' = reads + 1
    /\ UNCHANGED <<tpc, params, input, codec, frameCount, frameOffset, limitHalf, ret,
                   streamIdx, encq, adec, rbuf, audioOffset, muxLog, aSubmitted, decNull, nullCalls, sentAfterNull,
                   vSubmitted, fetchFailed, result, cancelAt, pulled, encNull,
                   cvars, rd, jc, en, sj, cf>>

\* a decoder that has been sent the Null packet takes no further packet:
\* avcodec_send_packet fails and RecvFrame returns nothing
DecoderTakes == ~decNull
TranscodeAudioPacket ==
    /\ tpc = "audio"
    /\ params.careAudio
    /\ reads < input.pkts
    /\ input.hasAudio
    /\ reads' = reads + 1
    /\ sentAfterNull' = (sentAfterNull \/ decNull)
    /\ \E n \in PktSamples :
        LET q == IF DecoderTakes THEN Append(adec, n) ELSE adec
            out == DecoderTakes /\ Len(q) > codec.decDelay
        IN  /\ adec' = IF out THEN Tail(q) ELSE q
            /\ IF out THEN AudioFeed(Head(q))
                      ELSE UNCHANGED <<rbuf, audioOffset, aSubmitted, encq, muxLog,
                                  pulled>>
            /\ IF out /\ 2 * audioOffset' > limitHalf * SampleRate
               THEN ret' = [ret EXCEPT !.a = 0] /\ tpc' = "test"
               ELSE UNCHANGED <<ret, tpc>>
    /\ UNCHANGED <<params, input, codec, frameCount, frameOffset, limitHalf, streamIdx,
                   decNull, nullCalls, vSubmitted, fetchFailed, result, cancelAt, encNull,
                   cvars, rd, jc, en, sj, cf>>

(***************************************************************************)
(* The end of one iteration: leave the loop when neither burst returned 0.*)
(***************************************************************************)
IterEndStuck ==
    /\ tpc = "test"
    /\ tpc' = IF ret.a # 0 /\ ret.v # 0 THEN "test" ELSE "iter"
    /\ UNCHANGED <<params, input, codec, frameCount, frameOffset, limitHalf, ret,
                   streamIdx, encq, adec, rbuf, audioOffset, reads, muxLog,
                   aSubmitted, decNull, nullCalls, sentAfterNull,
                   vSubmitted, fetchFailed, result, cancelAt, pulled, encNull,
                   cvars, rd, jc, en, sj, cf>>
IterEnd ==
    /\ tpc = "test"
    /\ tpc' = IF ret.a # 0 /\ ret.v # 0 THEN "flushv" ELSE "iter"
    /\ UNCHANGED <<params, input, codec, frameCount, frameOffset, limitHalf, ret,
                   streamIdx, encq, adec, rbuf, audioOffset, reads, muxLog,
                   aSubmitted, decNull, nullCalls, sentAfterNull,
                   vSubmitted, fetchFailed, result, cancelAt, pulled, encNull,
                   cvars, rd, jc, en, sj, cf>>

(***************************************************************************)
(* Flush of the video encoder: SendFrameNull, then every packet left.     *)
(***************************************************************************)
FlushVideoNoDrain ==
    /\ tpc = "flushv"
    /\ IF params.careVideo /\ streamIdx.v >= 0
       THEN /\ encNull' = [encNull EXCEPT !.v = @ + 1]
            /\ encq' = [encq EXCEPT !.v = <<>>]
            /\ UNCHANGED muxLog
       ELSE UNCHANGED <<encNull, muxLog, encq>>
    /\ tpc' = "flusha"
    /\ UNCHANGED <<params, input, codec, frameCount, frameOffset, limitHalf, ret,
                   streamIdx, adec, rbuf, audioOffset, reads, aSubmitted, decNull, nullCalls, sentAfterNull,
                   vSubmitted, fetchFailed, result, cancelAt, pulled, cvars, rd, jc, en, sj, cf>>
FlushVideo ==
    /\ tpc = "flushv"
    /\ IF params.careVideo /\ streamIdx.v >= 0
       THEN /\ encNull' = [encNull EXCEPT !.v = @ + 1]
            /\ muxLog' = muxLog \o MapWrite(WriteVideoFlush, encq.v)
            /\ encq' = [encq EXCEPT !.v = <<>>]
       ELSE UNCHANGED <<encNull, muxLog, encq>>
    /\ tpc' = "flusha"
    /\ UNCHANGED <<params, input, codec, frameCount, frameOffset, limitHalf, ret,
                   streamIdx, adec, rbuf, audioOffset, reads, aSubmitted, decNull, nullCalls, sentAfterNull,
                   vSubmitted, fetchFailed, result, cancelAt, pulled, cvars, rd, jc, en, sj, cf>>

(***************************************************************************)
(* Flush of the resampler and of the audio encoder: PutAVFrameNULL makes   *)
(* the resampler give out the samples it still holds back.  The full      *)
(* frames GetFrame then returns are not encoded; when GetLastFrame returns *)
(* the short last frame, audioOffset advances by a whole frame size and    *)
(* the frame is not encoded either.  Then SendFrameNull and the packets    *)
(* the encoder still holds.                                                *)
(***************************************************************************)
\* samples the resampler holds back until PutAVFrameNULL (its delay)
FlushSamples == {0, 200}
\* resample.GetLastFrame returns a frame when samples are left over
GetLastFrameOk(left) == left > 0
FlushAudio ==
    /\ tpc = "flusha"
    /\ IF params.careAudio /\ streamIdx.a >= 0
       THEN \E tail \in FlushSamples :
            /\ rbuf' = 0
            /\ pulled' = pulled + (rbuf + tail) \div FrameSize
            /\ audioOffset' = IF GetLastFrameOk((rbuf + tail) % FrameSize)
                               THEN audioOffset + FrameSize
                               ELSE audioOffset
            /\ encNull' = [encNull EXCEPT !.a = @ + 1]
            /\ muxLog' = muxLog \o MapWrite(WriteAudioFlush, encq.a)
            /\ encq' = [encq EXCEPT !.a = <<>>]
       ELSE UNCHANGED <<rbuf, pulled, audioOffset, encNull, muxLog, encq>>
    /\ tpc' = "finish"
    /\ UNCHANGED <<params, input, codec, frameCount, frameOffset, limitHalf, ret,
                   streamIdx, adec, reads, aSubmitted, decNull, nullCalls, sentAfterNull,
                   vSubmitted, fetchFailed, result, cancelAt, cvars, rd, jc, en, sj, cf>>

(***************************************************************************)
(* UninitDeocder, writer.WriteTrailer, writer.Close, return 0.            *)
(***************************************************************************)
FinishCallsCloseFirst == <<MuxCall("close"), MuxCall("trailer")>>
FinishCalls == <<MuxCall("trailer"), MuxCall("close")>>
\* Transcode() ends with "return 0" on every path
TranscodeReturn == 0
TranscodeFinish ==
    /\ tpc = "finish"
    /\ muxLog' = muxLog \o FinishCalls
    /\ result' = TranscodeReturn
    /\ tpc' = "done"
    /\ UNCHANGED <<params, input, codec, frameCount, frameOffset, limitHalf, ret,
                   streamIdx, encq, adec, rbuf, audioOffset, reads, aSubmitted,
                   decNull, nullCalls, sentAfterNull, vSubmitted, fetchFailed, cancelAt, pulled, encNull,
                   cvars, rd, jc, en, sj, cf>>

(***************************************************************************)
(* TranscodeTaskThread::Stop, first half: the main thread sets the         *)
(* interrupt flag while the run is in progress.  No statement of the run   *)
(* reads the flag.                                                         *)
(***************************************************************************)
RequestCancel ==
    /\ tpc \notin {"begin", "done", "off"}
    /\ cancelAt = -1
    /\ cancelAt' = limitHalf
    /\ UNCHANGED <<tpc, params, input, codec, frameCount, frameOffset, limitHalf, ret,
                   streamIdx, encq, adec, rbuf, audioOffset, reads, muxLog,
                   aSubmitted, decNull, nullCalls, sentAfterNull, vSubmitted, fetchFailed,
                   result, pulled, encNull,
                   cvars, rd, jc, en, sj, cf>>

(***************************************************************************)
(*                                                                         *)
(*                 Part III: one call of EyerAVReader::Read                *)
(*                                                                         *)
(***************************************************************************)
\* width of a time stamp in bits (int64_t, scaled down)
TsBits == 5
Ts == (-(2 ^ (TsBits - 1))) .. (2 ^ (TsBits - 1) - 1)
\* AV_NOPTS_VALUE is the smallest int64_t
AV_NOPTS_VALUE == -(2 ^ (TsBits - 1))

\* a - b in int64_t: the difference when it fits; signed overflow is
\* undefined, the build may leave any value
SubInt64(a, b) == IF a - b \in Ts THEN {a - b} ELSE Ts

\* Read(EyerAVPacket *): packet->pts -= start_time, always
ReadPointerPts(pts, start_time) == SubInt64(pts, start_time)
\* Read(EyerAVPacket &): the same when start_time is not AV_NOPTS_VALUE
ReadReferencePts(pts, start_time) ==
    IF start_time # AV_NOPTS_VALUE THEN SubInt64(pts, start_time) ELSE {pts}

\* no Read call is part of the model
RIdle == rd = [st |-> "off", by |-> "-", pts |-> 0, start |-> 0, out |-> 0]
\* before a Read call: the next packet of the file has pts, absent or not,
\* and its stream has start_time, defined or not
RInit ==
    \E p \in Ts, s \in Ts :
        rd = [st |-> "file", by |-> "-", pts |-> p, start |-> s, out |-> p]

\* av_read_frame fails: no packet is returned
ReadFails(by) == rd' = [rd EXCEPT !.st = "failed", !.by = by]
ReadPointer ==
    /\ rd.st = "file"
    /\ \/ ReadFails("pointer")
       \/ \E o \in ReadPointerPts(rd.pts, rd.start) :
            rd' = [rd EXCEPT !.st = "read", !.by = "pointer", !.out = o]
    /\ UNCHANGED <<cvars, tvars, jc, en, sj, cf>>
ReadReference ==
    /\ rd.st = "file"
    /\ \/ ReadFails("reference")
       \/ \E o \in ReadReferencePts(rd.pts, rd.start) :
            rd' = [rd EXCEPT !.st = "read", !.by = "reference", !.out = o]
    /\ UNCHANGED <<cvars, tvars, jc, en, sj, cf>>
\* Read(int & ret): a new packet, read by Read(EyerAVPacket *)
ReadSmartPtr ==
    /\ rd.st = "file"
    /\ \/ ReadFails("smartptr")
       \/ \E o \in ReadPointerPts(rd.pts, rd.start) :
            rd' = [rd EXCEPT !.st = "read", !.by = "smartptr", !.out = o]
    /\ UNCHANGED <<cvars, tvars, jc, en, sj, cf>>
RNext ==
    \/ ReadPointer
    \/ ReadReference
    \/ ReadSmartPtr

(***************************************************************************)
(*                                                                         *)
(*   Part IV: the parameters of one TaskItem, from the window to run()    *)
(*                                                                         *)
(***************************************************************************)
\* distinct parameter sets of the dialog, and distinct output directories
MaxCfg == 2
\* an output directory: 0 is the empty string
Dirs == 0..MaxCfg
\* a default-constructed parameter object, an empty path
NoParams == 0
NoOutput == [dir |-> 0, name |-> 0]

\* the window after construction, one TaskItem in the list, its thread
\* not started
JInit ==
    \E p \in 1..MaxCfg, d \in Dirs :
        jc = [win |-> [p |-> p, dir |-> d],
              item |-> [p |-> NoParams, dir |-> 0],
              thr |-> [p |-> NoParams, out |-> NoOutput],
              xc |-> [p |-> NoParams, out |-> NoOutput],
              handed |-> [p |-> NoParams, out |-> NoOutput],
              st |-> PREPARE, th |-> "idle"]
\* no TaskItem is followed
JIdle ==
    jc = [win |-> [p |-> 1, dir |-> 0],
          item |-> [p |-> NoParams, dir |-> 0],
          thr |-> [p |-> NoParams, out |-> NoOutput],
          xc |-> [p |-> NoParams, out |-> NoOutput],
          handed |-> [p |-> NoParams, out |-> NoOutput],
          st |-> NONE, th |-> "idle"]

\* OnConfigWindowsClose: params = configWindow->GetTranscodeParams(); the
\* dialog was given the window's parameters and keeps their directory
Cfg_OnConfigWindowsCloseShared ==
    /\ \E p \in 1..MaxCfg :
        jc' = [jc EXCEPT !.win.p = p, !.thr.p = IF @ = NoParams THEN @ ELSE p]
    /\ UNCHANGED <<cvars, tvars, rd, en, sj, cf>>
Cfg_OnConfigWindowsClose ==
    /\ \E p \in 1..MaxCfg : jc' = [jc EXCEPT !.win.p = p]
    /\ UNCHANGED <<cvars, tvars, rd, en, sj, cf>>

\* SetOutputPathClickListener: params.SetOutputDir(outDir), outDir not empty
Cfg_SetOutputPathClickListener ==
    /\ \E d \in Dirs \ {0} : jc' = [jc EXCEPT !.win.dir = d]
    /\ UNCHANGED <<cvars, tvars, rd, en, sj, cf>>

\* the output path StartTask builds: outputDir and the file name made
\* from the TaskItem's parameters
OutputPath(item) == [dir |-> item.dir, name |-> item.p]

\* the scheduling pass over the one task with status s: SetParams,
\* SetOutputDir and StartTask for a PREPARE task, nothing otherwise
Cfg_Internal(s) ==
    IF jc.win.dir = 0 \/ s # PREPARE
    THEN jc' = [jc EXCEPT !.st = s]
    ELSE \E outcome \in StartOutcomes :
        LET it == [p |-> jc.win.p, dir |-> jc.win.dir] IN
        IF outcome = "ok"
        THEN jc' = [jc EXCEPT !.item = it,
                              !.thr = [p |-> it.p, out |-> OutputPath(it)],
                              !.handed = [p |-> it.p, out |-> OutputPath(it)],
                              !.st = ING,
                              !.th = IF @ = "idle" THEN "started" ELSE @]
        ELSE jc' = [jc EXCEPT !.item = it,
                              !.thr.p = it.p,
                              !.st = FAIL]

\* StartTranscodeClickListener: reset of a FAIL task, then the pass
Cfg_StartTranscodeClickListener ==
    /\ Cfg_Internal(ResetStatus(jc.st))
    /\ UNCHANGED <<cvars, tvars, rd, en, sj, cf>>
\* TaskItem_OnTaskSuccess / TaskItem_OnTaskFail of any task: the pass
Cfg_TerminalSlot ==
    /\ Cfg_Internal(jc.st)
    /\ UNCHANGED <<cvars, tvars, rd, en, sj, cf>>

\* TranscodeTaskThread::run: the transcoder is given output and params
Cfg_RunBegin ==
    /\ jc.th = "started"
    /\ jc' = [jc EXCEPT !.xc = jc.thr, !.th = "running"]
    /\ UNCHANGED <<cvars, tvars, rd, en, sj, cf>>
\* the transcoder sets the terminal status and calls the listener
Cfg_WorkerReport ==
    /\ jc.th = "running"
    /\ \E s \in {SUCC, FAIL} : jc' = [jc EXCEPT !.st = s, !.th = "reported"]
    /\ UNCHANGED <<cvars, tvars, rd, en, sj, cf>>
\* run() returns
Cfg_WorkerExit ==
    /\ jc.th = "reported"
    /\ jc' = [jc EXCEPT !.th = "idle"]
    /\ UNCHANGED <<cvars, tvars, rd, en, sj, cf>>

JNext ==
    \/ Cfg_OnConfigWindowsClose
    \/ Cfg_SetOutputPathClickListener
    \/ Cfg_StartTranscodeClickListener
    \/ Cfg_TerminalSlot
    \/ Cfg_RunBegin
    \/ Cfg_WorkerReport
    \/ Cfg_WorkerExit

(***************************************************************************)
(*                                                                         *)
(*            Part V: EyerAVEncoder::Init for the audio codecs            *)
(*                                                                         *)
(***************************************************************************)
AudioCodecIds == {"AAC", "LIB_OPUS", "MP3", "FLAC", "PCM_S16LE", "PCM_S32LE"}
SampleRates == {8000, 16000, 22050, 32000, 44100, 48000}
\* codecContext->time_base after avcodec_alloc_context3
AllocTimebase == [num |-> 0, den |-> 1]

\* the time_base Init assigns before avcodec_open2: the AAC and the Opus
\* branch set 1 / param.sample_rate, the other audio branches set none
InitTimebase(codecId, sample_rate) ==
    IF codecId \in {"AAC", "LIB_OPUS"}
    THEN [num |-> 1, den |-> sample_rate]
    ELSE AllocTimebase

\* avcodec_open2 (codec library): it opens the encoder or fails; a
\* time_base that was set stays, one that was not set may be left as it is
\* or be filled in from the sample rate
OpenTimebases(tb, sample_rate) ==
    IF tb = AllocTimebase THEN {tb, [num |-> 1, den |-> sample_rate]} ELSE {tb}

\* no encoder is followed
EIdle ==
    en = [st |-> "off", codecId |-> "-", sample_rate |-> 0,
          time_base |-> AllocTimebase, ret |-> 0, got |-> AllocTimebase]
\* a new EyerAVEncoder and the parameters it will be given
EInit ==
    \E c \in AudioCodecIds, r \in SampleRates :
        en = [st |-> "new", codecId |-> c, sample_rate |-> r,
              time_base |-> AllocTimebase, ret |-> 0, got |-> AllocTimebase]

EyerAVEncoder_Init ==
    /\ en.st = "new"
    /\ \E tb \in OpenTimebases(InitTimebase(en.codecId, en.sample_rate),
                               en.sample_rate),
          r \in {0, -1} :
        en' = [en EXCEPT !.st = "inited", !.time_base = tb, !.ret = r]
    /\ UNCHANGED <<cvars, tvars, rd, jc, sj, cf>>
EyerAVEncoder_GetTimebase ==
    /\ en.st = "inited"
    /\ en' = [en EXCEPT !.st = "asked", !.got = en.time_base]
    /\ UNCHANGED <<cvars, tvars, rd, jc, sj, cf>>
ENext ==
    \/ EyerAVEncoder_Init
    \/ EyerAVEncoder_GetTimebase

(***************************************************************************)
(*                                                                         *)
(*     Part VI: TranscodeTaskThread::Stop against the worker thread        *)
(*                                                                         *)
(* The main thread runs Stop(); the worker thread runs run(), where the    *)
(* transcoder calls interrupt() and the listener between its pieces of     *)
(* work.  sj.mut is the owner of interruptFlagMut.                         *)
(***************************************************************************)
\* calls of interrupt() and of the listener one run() makes at most
MaxPolls == 3

\* no thread is followed
SIdle ==
    sj = [mut |-> "free", flag |-> FALSE, mpc |-> "off", wpc |-> "off",
          after |-> FALSE, res |-> "none", n |-> 0, q |-> 0]
\* a new TranscodeTaskThread: interruptFlag = false, the thread not started
SInit ==
    sj = [mut |-> "free", flag |-> FALSE, mpc |-> "idle", wpc |-> "new",
          after |-> FALSE, res |-> "none", n |-> 0, q |-> 0]

\* taskThread.start(), called by the main thread outside Stop()
Thread_start ==
    /\ sj.mpc = "idle"
    /\ sj.wpc = "new"
    /\ sj' = [sj EXCEPT !.wpc = "work"]
    /\ UNCHANGED <<cvars, tvars, rd, jc, en, cf>>

\* Stop(): the lock_guard takes interruptFlagMut
Stop_Lock ==
    /\ sj.mpc \in {"idle", "returned"}
    /\ sj.mut = "free"
    /\ sj' = [sj EXCEPT !.mut = "main", !.mpc = "locked"]
    /\ UNCHANGED <<cvars, tvars, rd, jc, en, cf>>
\* interruptFlag = true
Stop_SetFlag ==
    /\ sj.mpc = "locked"
    /\ sj' = [sj EXCEPT !.flag = TRUE, !.mpc = "set"]
    /\ UNCHANGED <<cvars, tvars, rd, jc, en, cf>>
\* the wait() that is called inside the scope of the lock_guard
Stop_KeepLock ==
    /\ sj.mpc = "set"
    /\ sj' = [sj EXCEPT !.mpc = "wait"]
    /\ UNCHANGED <<cvars, tvars, rd, jc, en, cf>>
\* the end of the inner block: the lock_guard releases the mutex, wait()
\* is called next
Stop_Unlock ==
    /\ sj.mpc = "set"
    /\ sj' = [sj EXCEPT !.mut = "free", !.mpc = "wait"]
    /\ UNCHANGED <<cvars, tvars, rd, jc, en, cf>>
\* QThread::wait() returns when the thread was not started or run() has
\* returned; Stop() returns 0
Stop_Wait ==
    /\ sj.mpc = "wait"
    /\ sj.wpc \in {"new", "finished"}
    /\ sj' = [sj EXCEPT !.mpc = "returned"]
    /\ UNCHANGED <<cvars, tvars, rd, jc, en, cf>>

\* the transcoder calls interrupt()
interrupt_Enter ==
    /\ sj.wpc = "work"
    /\ sj.n < MaxPolls
    /\ sj' = [sj EXCEPT !.wpc = "enter", !.after = sj.flag, !.res = "none",
                        !.n = @ + 1]
    /\ UNCHANGED <<cvars, tvars, rd, jc, en, cf>>
\* its lock_guard takes interruptFlagMut
interrupt_Lock ==
    /\ sj.wpc = "enter"
    /\ sj.mut = "free"
    /\ sj' = [sj EXCEPT !.mut = "worker", !.wpc = "in"]
    /\ UNCHANGED <<cvars, tvars, rd, jc, en, cf>>
\* return interruptFlag; the lock_guard releases the mutex
interrupt_Return ==
    /\ sj.wpc = "in"
    /\ sj' = [sj EXCEPT !.mut = "free", !.wpc = "work", 
                        !.res = IF sj.flag THEN "true" ELSE "false"]
    /\ UNCHANGED <<cvars, tvars, rd, jc, en, cf>>
\* OnProgress, OnFail, OnSuccess: the signal is queued for the main
\* thread, the emit does not wait for the slot
Listener_Emit ==
    /\ sj.wpc = "work"
    /\ sj.n < MaxPolls
    /\ sj' = [sj EXCEPT !.q = @ + 1, !.n = @ + 1]
    /\ UNCHANGED <<cvars, tvars, rd, jc, en, cf>>
\* Transcode returns, run() returns
Run_Return ==
    /\ sj.wpc = "work"
    /\ sj' = [sj EXCEPT !.wpc = "finished"]
    /\ UNCHANGED <<cvars, tvars, rd, jc, en, cf>>
\* the main thread, outside Stop(), runs the slot of a queued signal
Slot_Run ==
    /\ sj.mpc \in {"idle", "returned"}
    /\ sj.q > 0
    /\ sj' = [sj EXCEPT !.q = @ - 1]
    /\ UNCHANGED <<cvars, tvars, rd, jc, en, cf>>

SNext ==
    \/ Thread_start
    \/ Stop_Lock
    \/ Stop_SetFlag
    \/ Stop_Unlock
    \/ Stop_Wait
    \/ interrupt_Enter
    \/ interrupt_Lock
    \/ interrupt_Return
    \/ Listener_Emit
    \/ Run_Return
    \/ Slot_Run

(***************************************************************************)
(*                                                                         *)
(*   Part VII: YouTranscoderParams written to the settings and read back   *)
(*                                                                         *)
(* A JSON object is a function from its keys to values, a value is a       *)
(* number or a string.  The codecs, formats and layouts are represented    *)
(* by their ids.  The *_desc keys ToJson also writes are read by nobody    *)
(* and left out.                                                           *)
(***************************************************************************)
\* largest CRF, sample rate index, thread number and task number
MaxVal == 2
IntVals == 1..MaxVal

\* Eyer::EyerVersion::GetEyerLibVersion()
EyerLibVersion == "v"

\* QJsonValue of an int and of a QString
Num(n) == [t |-> "num", v |-> n]
Str(x) == [t |-> "str", v |-> x]
\* QJsonValue::toInt(defaultValue) and QJsonValue::toString()
toInt(x, d) == IF x.t = "num" THEN x.v ELSE d
toString(x) == IF x.t = "str" THEN x.v ELSE ""
\* GetAVFileFmtById, GetCodecIdById, GetById: the entry with that id
GetById(id) == IF id \in {0, 1} THEN id ELSE 0

\* a default-constructed YouTranscoderParams
DefaultParams ==
    [fmt |-> 0, vcodec |-> 0, pixfmt |-> 0, crf |-> 1, acodec |-> 0,
     layout |-> 0, rate |-> 1, dec |-> 1,
     prefix |-> "${origin_file_name}_${output_video_codec}_${video_pixelfmt}_${output_audio_codec}",
     enc |-> 1, num |-> 2, dir |-> ""]
\* the parameter sets the dialog and the window can produce
ParamSets ==
    [fmt : {0, 1}, vcodec : {0, 1}, pixfmt : {0, 1}, crf : IntVals,
     acodec : {0, 1}, layout : {0, 1}, rate : IntVals,
     prefix : {"", "${origin_file_name}"},
     dec : IntVals, enc : IntVals,
     num : IntVals, dir : {"", "d"}]

ToJson(p) ==
    [eyer_lib_version |-> Str(EyerLibVersion),
     output_file_fmt |-> Num(p.fmt),
     video_codec |-> Num(p.vcodec),
     pixel_format |-> Num(p.pixfmt),
     video_crf |-> Num(p.crf),
     audio_codec |-> Num(p.acodec),
     audio_channel_layout |-> Num(p.layout),
     audio_sample_rate |-> Num(p.rate),
     filename_prefix |-> Str(p.prefix),
     decode_thread_num |-> Num(p.dec),
     encode_thread_num |-> Num(p.enc),
     trans_num_sametime |-> Num(p.num),
     output_dir |-> Str(p.dir)]

\* ParseJson into the object q.  A text that is no JSON object (the empty
\* function) changes nothing and gives 0; an object without the version of
\* this build gives -1.  Every key that is there sets its field; the key
\* encode_thread_num is given to SetDecodeThreadNum.
ParseJson(q, j) ==
    LET Has(k) == k \in DOMAIN j IN
    IF DOMAIN j = {} THEN [ret |-> 0, q |-> q]
    ELSE IF ~Has("eyer_lib_version") THEN [ret |-> -1, q |-> q]
    ELSE IF j.eyer_lib_version.t # "str" THEN [ret |-> -1, q |-> q]
    ELSE IF j.eyer_lib_version.v # EyerLibVersion THEN [ret |-> -1, q |-> q]
    ELSE [ret |-> 0,
          q |-> [fmt |-> IF Has("output_file_fmt")
                         THEN GetById(toInt(j.output_file_fmt, 0)) ELSE q.fmt,
                 vcodec |-> IF Has("video_codec")
                            THEN GetById(toInt(j.video_codec, 0)) ELSE q.vcodec,
                 pixfmt |-> IF Has("pixel_format")
                            THEN GetById(toInt(j.pixel_format, 0)) ELSE q.pixfmt,
                 crf |-> IF Has("video_crf") THEN toInt(j.video_crf, 18) ELSE q.crf,
                 acodec |-> IF Has("audio_codec")
                            THEN GetById(toInt(j.audio_codec, 0)) ELSE q.acodec,
                 layout |-> IF Has("audio_channel_layout")
                            THEN GetById(toInt(j.audio_channel_layout, 0)) ELSE q.layout,
                 rate |-> IF Has("audio_sample_rate")
                          THEN toInt(j.audio_sample_rate, 44100) ELSE q.rate,
                 prefix |-> IF Has("filename_prefix")
                            THEN toString(j.filename_prefix) ELSE q.prefix,
                 dec |-> IF Has("encode_thread_num")
                         THEN toInt(j.encode_thread_num, 4)
                         ELSE IF Has("decode_thread_num")
                              THEN toInt(j.decode_thread_num, 4) ELSE q.dec,
                 enc |-> q.enc,
                 num |-> IF Has("trans_num_sametime")
                         THEN toInt(j.trans_num_sametime, 2) ELSE q.num,
                 dir |-> IF Has("output_dir") THEN toString(j.output_dir) ELSE q.dir]]

\* no parameter object is followed
FIdle ==
    cf = [st |-> "off", p |-> DefaultParams, json |-> <<>>, q |-> DefaultParams,
          ret |-> 0]
\* a parameter set p and a default-constructed object q
FInit ==
    \E p \in ParamSets :
        cf = [st |-> "new", p |-> p, json |-> <<>>, q |-> DefaultParams, ret |-> 0]

YouTranscoderParams_ToJson ==
    /\ cf.st = "new"
    /\ cf' = [cf EXCEPT !.st = "written", !.json = ToJson(cf.p)]
    /\ UNCHANGED <<cvars, tvars, rd, jc, en, sj>>
YouTranscoderParams_ParseJson ==
    /\ cf.st = "written"
    /\ LET r == ParseJson(cf.q, cf.json) IN
        cf' = [cf EXCEPT !.st = "parsed", !.q = r.q, !.ret = r.ret]
    /\ UNCHANGED <<cvars, tvars, rd, jc, en, sj>>
FNext ==
    \/ YouTranscoderParams_ToJson
    \/ YouTranscoderParams_ParseJson

TSteps ==
    \/ IterBegin
    \/ TranscodeVideoFrame
    \/ AudioEnter
    \/ TranscodeAudioEof
    \/ TranscodeAudioReadError
    \/ TranscodeAudioSkip
    \/ TranscodeAudioPacket
    \/ IterEnd
    \/ FlushVideo
    \/ FlushAudio
    \/ TranscodeFinish
TNext ==
    \/ TranscodeBegin
    \/ TSteps

CNext ==
    \/ SetInputPathClickListener
    \/ SetOutputPathClickListener
    \/ OnConfigWindowsClose
    \/ StartTranscodeClickListener
    \/ StartTranscodeClickListenerInternal
    \/ \E id \in JobIds : WorkerSuccess(id)
    \/ \E id \in JobIds : WorkerFail(id)
    \/ \E id \in JobIds : WorkerExit(id)
    \/ TaskItem_OnTaskSuccess
    \/ TaskItem_OnTaskFail
    \/ \E id \in JobIds : TaskItem_OnRemove(id)

Init == CInit /\ TIdle /\ RIdle /\ JIdle /\ EIdle /\ SIdle /\ FIdle
Next == CNext
Spec == Init /\ [][Next]_vars

\* one transcode run on its own
InitT == TInit /\ CInit /\ cap = 1 /\ ~outputDirSet /\ RIdle /\ JIdle /\ EIdle /\ SIdle /\ FIdle
SpecT == InitT /\ [][TNext]_vars

\* one run of Transcode() over the long source
InitLong == TInitLong /\ CInit /\ cap = 1 /\ ~outputDirSet /\ RIdle /\ JIdle /\ EIdle /\ SIdle /\ FIdle
\* the frame and sample positions at the end of an iteration are those
\* of a build whose codecs hold nothing back
FastCodec == [muxer |-> "clock", encDelay |-> 0, decDelay |-> 0]
LongNext ==
    \/ TranscodeBeginIn({FastCodec})
    \/ TSteps
SpecLong == InitLong /\ [][LongNext]_vars

\* one Read call on a file whose next packet and stream are any
InitR == RInit /\ CInit /\ cap = 1 /\ ~outputDirSet /\ TIdle /\ JIdle /\ EIdle /\ SIdle /\ FIdle
SpecR == InitR /\ [][RNext]_vars

\* one TaskItem, the window's parameters changed at any time
InitJ == JInit /\ CInit /\ cap = 1 /\ ~outputDirSet /\ TIdle /\ RIdle /\ EIdle /\ SIdle /\ FIdle
SpecJ == InitJ /\ [][JNext]_vars

\* one audio encoder of any codec and sample rate, initialised and asked
InitE == EInit /\ CInit /\ cap = 1 /\ ~outputDirSet /\ TIdle /\ RIdle /\ JIdle /\ SIdle /\ FIdle
SpecE == InitE /\ [][ENext]_vars

\* Stop() and one worker thread on their own; both threads are scheduled
InitS == SInit /\ CInit /\ cap = 1 /\ ~outputDirSet /\ TIdle /\ RIdle /\ JIdle /\ EIdle /\ FIdle
SpecS == InitS /\ [][SNext]_vars
LiveSpecS == SpecS /\ WF_vars(SNext)

\* one parameter set written and read back
InitF == FInit /\ CInit /\ cap = 1 /\ ~outputDirSet /\ TIdle /\ RIdle /\ JIdle /\ EIdle /\ SIdle
SpecF == InitF /\ [][FNext]_vars

\* a run during which the main thread may call TranscodeTaskThread::Stop
KNext ==
    \/ TNext
    \/ RequestCancel
SpecK == InitT /\ [][KNext]_vars

\* a run whose thread keeps being scheduled until Transcode() returns; the
\* muxer with the coarse time bases and the longest delays stand for all
SlowCodec == [muxer |-> "frame", encDelay |-> MaxDelay, decDelay |-> 1]
LNext ==
    \/ TranscodeBeginIn({SlowCodec})
    \/ TSteps
LiveSpecT == InitT /\ [][LNext]_vars /\ WF_vars(LNext)

(***************************************************************************)
(* The controller with the start button pressed once and the list filled  *)
(* before that; nothing is removed and the configuration is left alone.   *)
(* The main thread keeps running its handler and its event loop, and every *)
(* running worker ends.                                                    *)
(***************************************************************************)
LiveNext ==
    \/ ~clicked /\ SetInputPathClickListener
    \/ ~clicked /\ SetOutputPathClickListener
    \/ ~clicked /\ StartTranscodeClickListener
    \/ StartTranscodeClickListenerInternal
    \/ \E id \in JobIds : WorkerSuccess(id)
    \/ \E id \in JobIds : WorkerFail(id)
    \/ \E id \in JobIds : WorkerExit(id)
    \/ TaskItem_OnTaskSuccess
    \/ TaskItem_OnTaskFail

LiveSpec ==
    /\ Init
    /\ [][LiveNext]_vars
    /\ WF_vars(StartTranscodeClickListenerInternal)
    /\ WF_vars(TaskItem_OnTaskSuccess)
    /\ WF_vars(TaskItem_OnTaskFail)
    /\ \A id \in JobIds : WF_vars(WorkerSuccess(id) \/ WorkerFail(id))
    /\ \A id \in JobIds : WF_vars(WorkerExit(id))

\* the same, with tasks removed from the list at any time
LiveNextRemove ==
    \/ LiveNext
    \/ \E id \in JobIds : TaskItem_OnRemove(id)

LiveSpecRemove ==
    /\ Init
    /\ [][LiveNextRemove]_vars
    /\ WF_vars(StartTranscodeClickListenerInternal)
    /\ WF_vars(TaskItem_OnTaskSuccess)
    /\ WF_vars(TaskItem_OnTaskFail)
    /\ \A id \in JobIds : WF_vars(WorkerSuccess(id) \/ WorkerFail(id))
    /\ \A id \in JobIds : WF_vars(WorkerExit(id))

(***************************************************************************)
(*                     Part I: properties of the controller               *)
(***************************************************************************)
Terminal(id) == status[id] \in {SUCC, FAIL}
AllTerminal == \A id \in JobIds : InLayout(id) => Terminal(id)
Armed(id) == hist[id] \in {"fresh", "reset"}
BecomesRunning(id) == status[id] # ING /\ status'[id] = ING

\* C1: in every reachable state the number of tasks of the list in state
\* ING is at most the configured number of simultaneous tasks, also after
\* the configuration dialog has changed that number while tasks run.
C1_RunningAtMostCap == CountStatus(ING) <= cap
\* C1, the part the scheduling pass keeps: a task becomes ING only while
\* fewer than the configured number of tasks of the list are ING.
C1_StartRespectsCap ==
    [][\A id \in JobIds : BecomesRunning(id) => CountStatus(ING) < cap]_vars
\* the pass has stopped at the limit with a task still waiting
C1_Witness ==
    /\ pcMain = "idle"
    /\ clicked
    /\ outputDirSet
    /\ CountStatus(ING) = cap
    /\ CountStatus(PREPARE) > 0

\* C2: whenever a task becomes ING, no task of the list that was added
\* earlier is PREPARE at that moment (the pass starts the oldest one).
C2_StartsOldestPrepared ==
    [][\A id \in JobIds : BecomesRunning(id) =>
          \A o \in JobIds : (o < id /\ InLayout(o)) => status[o] # PREPARE]_vars
\* an older task failed to start and stays FAIL, the next one was started
C2_Witness ==
    /\ InLayout(1) /\ InLayout(2)
    /\ status[1] = FAIL /\ hist[1] = "fresh"
    /\ status[2] = ING /\ wk[2] = "run"

\* C3: a task becomes ING only from PREPARE, and only when it was created
\* or explicitly reset since its last start: never from ING or SUCC, and
\* never twice without a reset in between.
C3_NoRestartWithoutReset ==
    [][\A id \in JobIds : BecomesRunning(id) =>
          (status[id] = PREPARE /\ Armed(id))]_vars
\* a task runs for the second time, after a failure and an explicit reset
C3_Witness == \E id \in JobIds : status[id] = ING /\ hist[id] = "restarted"

C5_FailedStaysFailed ==
    [][\A id \in JobIds : (status[id] = FAIL /\ status'[id] # FAIL) =>
          (StartTranscodeClickListener /\ status'[id] = PREPARE)]_vars
\* a pass entered from a terminal signal has started a task while a task
\* that ran and failed is still in the list, still FAIL
C5_Witness ==
    /\ pcMain = "pass" /\ trigger \in {"succ", "fail"}
    /\ \E f, r \in JobIds :
        /\ InLayout(f) /\ status[f] = FAIL /\ hist[f] = "started"
        /\ InLayout(r) /\ status[r] = ING /\ CountStatus(ING) >= cap

\* C6: the status of a task only ever changes along PREPARE -> ING,
\* PREPARE -> FAIL, ING -> SUCC, ING -> FAIL and, in the start button's
\* handler only, FAIL -> PREPARE; SUCC is never left.
AllowedTransitions ==
    {<<NONE, PREPARE>>, <<PREPARE, ING>>, <<PREPARE, FAIL>>,
     <<ING, SUCC>>, <<ING, FAIL>>, <<FAIL, PREPARE>>}
C6_TransitionsMonotone ==
    [][\A id \in JobIds : status'[id] # status[id] =>
          /\ <<status[id], status'[id]>> \in AllowedTransitions
          /\ status[id] = FAIL => StartTranscodeClickListener]_vars
\* a task failed, was reset, ran again and succeeded
C6_Witness == \E id \in JobIds : status[id] = SUCC /\ hist[id] = "restarted"

(***************************************************************************)
(*                 Properties of one transcode run                         *)
(***************************************************************************)
Packets == {i \in 1..Len(muxLog) : muxLog[i].op = "packet"}
Calls(name) == {i \in 1..Len(muxLog) : muxLog[i].op = name}
OtherKind(kind) == IF kind = "v" THEN "a" ELSE "v"

\* C7: on every path of a run the writer receives the header before any
\* packet, every packet before the trailer, and the trailer exactly once
\* and before the close.
C7_MuxOrder ==
    LET packets == Packets
        headers == Calls("header")
        trailers == Calls("trailer")
        closes == Calls("close")
    IN  /\ \A p \in packets : \E h \in headers : h < p
        /\ \A p \in packets : \A t \in trailers : p < t
        /\ \A c \in closes : \E t \in trailers : t < c
        /\ \A c \in closes : c = Len(muxLog)
        /\ Cardinality(trailers) <= 1
        /\ tpc = "done" => Cardinality(trailers) = 1 /\ Cardinality(closes) = 1
C7_Witness ==
    /\ tpc = "done"
    /\ codec.encDelay = 1
    /\ \E i, j \in Packets : muxLog[i].kind = "v" /\ muxLog[j].kind = "a"
    /\ ret.v = -1
    /\ frameOffset < frameCount

\* C8: every packet given to writer.WritePacket carries the stream index
\* AddStream returned for its own pipeline (never negative, never the other
\* pipeline's) and has been rescaled exactly once, from the encoder time
\* base to the writer's time base of that stream, in bursts and in flushes.
C8_PacketIndexAndTimebase ==
    \A kind \in {"v", "a"} :
        LET own == streamIdx[kind]
            other == streamIdx[OtherKind(kind)]
            from == EncoderTimebase(kind)
            to == WriterTimebase(codec.muxer, kind)
        IN  \A p \in Packets :
                muxLog[p].kind = kind =>
                    /\ muxLog[p].idx = own
                    /\ muxLog[p].idx >= 0
                    /\ muxLog[p].idx # other
                    /\ muxLog[p].nresc = 1
                    /\ muxLog[p].tb = to
                    /\ muxLog[p].dts = AvRescale(muxLog[p].encDts, from, to)
C8_Witness ==
    /\ tpc = "finish"
    /\ codec.encDelay = 1
    /\ codec.muxer = "clock"
    /\ streamIdx = [v |-> 0, a |-> 1]
    /\ \E i, j \in Packets : /\ muxLog[i].kind = "v"
                             /\ muxLog[j].kind = "a"
                             /\ i < j
                             /\ \A k \in Packets : k <= j
    /\ Cardinality({i \in Packets : muxLog[i].kind = "a"}) = Len(aSubmitted)

C10_AudioPtsStep ==
    \A i \in 1..Len(aSubmitted) :
        aSubmitted[i] = IF i = 1 THEN 0 ELSE aSubmitted[i - 1] + FrameSize
C10_Witness ==
    /\ tpc = "test"
    /\ ret.a = -1
    /\ codec.decDelay = 1
    /\ limitHalf >= 2
    /\ reads = MaxReads
    /\ adec = <<>>
    /\ audioOffset > (MaxReads - 1) * 12000
    /\ Len(aSubmitted) * FrameSize = audioOffset

\* C11: in every state of the run, audioOffset equals the sum of the sizes
\* of the frames given to the audio encoder so far, the drain at the end of
\* the file and the flush of the resampler included.
C11_OffsetIsSubmittedSum == audioOffset = Len(aSubmitted) * FrameSize
\* what the code keeps: the equality holds until the flush of the resampler
C11_OffsetIsSubmittedSumBeforeFlush ==
    tpc \notin {"finish", "done"} => audioOffset = Len(aSubmitted) * FrameSize
\* the flush found left-over samples and moved audioOffset for a frame that
\* was never given to the encoder
C11_Witness ==
    /\ tpc = "finish"
    /\ params.careAudio
    /\ Len(aSubmitted) > 0
    /\ audioOffset = (Len(aSubmitted) + 1) * FrameSize

\* C12: once audioDecoder.SendPacketNull has been called, no input packet
\* is given to the audio decoder any more, in the same burst or a later one.
C12_NoPacketAfterNull == ~sentAfterNull
\* a run has ended in which a packet followed the Null packet
C12_Witness ==
    /\ tpc = "done"
    /\ decNull
    /\ sentAfterNull
    /\ reads = MaxReads

\* C13: when the run of a video pipeline has ended and no frame fetch has
\* failed, the number of frames given to the video encoder differs from
\* round(duration * fps), at least 1, by at most 1 (input.dur is the
\* duration in half seconds).
C13_FrameCountRounded ==
    LET rounded == Max(1, (input.dur * params.fps + 1) \div 2)
    IN  (tpc = "done" /\ params.careVideo /\ input.hasVideo /\ ~fetchFailed) =>
            /\ Len(vSubmitted) >= rounded - 1
            /\ Len(vSubmitted) <= rounded + 1
\* a run whose fetches all succeeded has ended with two frames more than
\* frameCount, which is the rounded number
C13_Witness ==
    /\ tpc = "done"
    /\ params.careVideo
    /\ input.hasVideo
    /\ ~fetchFailed
    /\ input.dur >= 1
    /\ frameCount = Max(1, (input.dur * params.fps + 1) \div 2)
    /\ Len(vSubmitted) = frameCount + 2

\* C14: a run in which a stage has failed (here: decoderBox.GetFrame)
\* reports the failure: Transcode() does not return 0 once it has ended.
C14_FaultFailsRun == (tpc = "done" /\ fetchFailed) => result # 0
\* a run with a failed frame fetch has ended and returned 0, after frames
\* had been written
C14_Witness ==
    /\ tpc = "done"
    /\ fetchFailed
    /\ result = 0
    /\ Len(vSubmitted) >= 1

C16_LoopEndsAndRunReturns == <>(tpc = "done" /\ result = 0)
\* a run of both pipelines has returned after three iterations or more
C16_Witness ==
    /\ tpc = "done"
    /\ result = 0
    /\ params.careVideo /\ params.careAudio
    /\ input.hasVideo /\ input.hasAudio
    /\ limitHalf >= 3
    /\ Len(vSubmitted) >= 3
    /\ Len(aSubmitted) >= 10

\* C17: every step that makes a task FAIL puts exactly one fail signal into
\* the main window's queue, also when the task fails in StartTask before
\* its thread was started.
C17_FailEmitsOneEvent ==
    [][\A id \in JobIds :
          (status[id] # FAIL /\ status'[id] = FAIL) =>
              /\ Len(events') = Len(events) + 1
              /\ events'[Len(events')] = "fail"]_vars
\* what the code keeps: a task whose thread was started and that becomes
\* FAIL has put one fail signal into the queue
C17_RunningFailEmitsOneEvent ==
    [][\A id \in JobIds :
          (status[id] = ING /\ status'[id] = FAIL) =>
              /\ Len(events') = Len(events) + 1
              /\ events'[Len(events')] = "fail"]_vars
\* a task is FAIL that was never started, and no signal was ever queued:
\* no other task has been started either
C17_Witness ==
    /\ pcMain = "idle"
    /\ events = <<>>
    /\ \E id \in JobIds : InLayout(id) /\ status[id] = FAIL /\ hist[id] = "fresh"
    /\ \A id \in JobIds : hist[id] = "fresh" /\ wk[id] = "idle"

C19_SubmittedWithinLimit ==
    [][vSubmitted' # vSubmitted => 2 * frameOffset <= limitHalf * params.fps]_vars
\* C19 (amended): a frame whose pts is greater than limitTime is given to
\* the encoder only as the last frame of its burst: the burst returns 0
\* right after it, so every frame of a burst but the last is within the
\* limit.
C19_OnlyLastFramePastLimit ==
    [][(vSubmitted' # vSubmitted /\ 2 * frameOffset > limitHalf * params.fps) =>
          (tpc' = "audio" /\ ret'.v = 0 /\ frameOffset' = frameOffset + 1)]_vars
\* the third burst has just ended with a frame past its limit, after frames
\* within the limit
C19_Witness ==
    /\ tpc = "audio"
    /\ ret.v = 0
    /\ limitHalf >= 2
    /\ Len(vSubmitted) >= 3
    /\ 2 * (frameOffset - 1) > limitHalf * params.fps
    /\ vSubmitted[Len(vSubmitted)] = frameOffset - 1

\* C20: a video burst entered with frameOffset >= frameCount returns -1
\* (the video is done), and no frame with an index >= frameCount is ever
\* fetched and given to the encoder.
C20_NoFramePastFrameCount ==
    [][/\ (tpc = "iter" /\ params.careVideo /\ frameOffset >= frameCount) =>
              ret'.v = -1
       /\ vSubmitted' # vSubmitted => frameOffset < frameCount]_vars
\* what the code keeps: the test on entry to a burst
C20_BurstEntryTest ==
    [][(tpc = "iter" /\ params.careVideo /\ frameOffset >= frameCount) =>
          (ret'.v = -1 /\ tpc' = "audio" /\ vSubmitted' = vSubmitted)]_vars
\* frames with the indexes frameCount and frameCount + 1 have been given to
\* the encoder in a run whose fetches all succeeded
C20_Witness ==
    /\ input.hasVideo
    /\ input.dur >= 1
    /\ ~fetchFailed
    /\ \E k \in 1..(Len(vSubmitted) - 1) :
        /\ vSubmitted[k] = frameCount
        /\ vSubmitted[k + 1] = frameCount + 1
    /\ frameOffset = frameCount + 2

\* C21: once Transcode() has computed frameCount for an input with a video
\* stream, frameCount is round(duration * fps), and 1 when that is less
\* than 1 (input.dur is the duration in half seconds).
C21_FrameCountIsRounded ==
    (tpc # "begin" /\ input.hasVideo) =>
        frameCount = Max(1, (input.dur * params.fps + 1) \div 2)
\* what the code keeps: frameCount is duration * fps cut off to a whole
\* number, and 1 when that is less than 1
C21_FrameCountIsTruncated ==
    (tpc # "begin" /\ input.hasVideo) =>
        frameCount = Max(1, (input.dur * params.fps) \div 2)
\* 1.5 s at 1 fps: frameCount is 1, the rounded product is 2
C21_Witness ==
    /\ tpc = "iter"
    /\ limitHalf = 0
    /\ input.hasVideo
    /\ input.dur = 3
    /\ params.fps = 1
    /\ frameCount = 1

\* C22: in the flush of the resampler, when GetLastFrame returns the short
\* last frame (samples are left over, fewer than a frame, whatever the
\* resampler still gives out), the frame is given to the audio encoder
\* with pts = audioOffset and audioOffset stays as it is.
C22_LastFrameSubmitted ==
    [][(/\ tpc = "flusha"
        /\ params.careAudio
        /\ streamIdx.a >= 0
        /\ \A t \in FlushSamples : 0 < rbuf + t /\ rbuf + t < FrameSize) =>
          (/\ audioOffset' = audioOffset
           /\ aSubmitted' = Append(aSubmitted, audioOffset))]_vars
\* the flush has run with samples left over and no full frame pulled in
\* it: audioOffset is one frame ahead and no frame was given to the encoder
C22_Witness ==
    /\ tpc = "finish"
    /\ params.careAudio
    /\ encNull.a = 1
    /\ rbuf = 0
    /\ pulled = Len(aSubmitted)
    /\ Len(aSubmitted) >= 10
    /\ audioOffset = Len(aSubmitted) * FrameSize + FrameSize
    /\ aSubmitted[Len(aSubmitted)] = audioOffset - 2 * FrameSize
\* C23: every full frame the resampler has returned (GetFrame), in a
\* burst, in the drain of the decoder at the end of the file or after
\* PutAVFrameNULL in the flush, has been given to the audio encoder.
C23_NoFrameDropped == pulled = Len(aSubmitted)
\* what the code keeps: no frame is dropped before the flush
C23_NoFrameDroppedBeforeFlush ==
    tpc \notin {"finish", "done"} => pulled = Len(aSubmitted)
\* the flush pulled a full frame that was not given to the encoder
C23_Witness ==
    /\ tpc = "finish"
    /\ params.careAudio
    /\ encNull.a = 1
    /\ Len(aSubmitted) >= 10
    /\ pulled = Len(aSubmitted) + 1

\* the frames given to the encoder of a kind, and whether the job has it
Submitted(kind) == IF kind = "v" THEN vSubmitted ELSE aSubmitted
Care(kind) == IF kind = "v" THEN params.careVideo ELSE params.careAudio
\* InitEncoder has set up an encoder and an output stream for the kind
HasEncoder(kind) == Care(kind) /\ streamIdx[kind] >= 0

\* C24: each encoder the run has set up gets SendFrameNull exactly once, after the
\* interleave loop has ended; no frame is given to an encoder after its
\* Null; and before WriteTrailer every frame given to the encoder has come
\* back as a packet that was written.
C24_EncoderNullOnceAndDrained ==
    /\ [](\A kind \in {"v", "a"} :
            /\ encNull[kind] <= 1
            /\ encNull[kind] = 1 => tpc \in {"flusha", "finish", "done"}
            /\ (tpc \in {"finish", "done"} /\ HasEncoder(kind)) =>
                  /\ encNull[kind] = 1
                  /\ encq[kind] = <<>>
                  /\ Cardinality({p \in Packets : muxLog[p].kind = kind})
                        = Len(Submitted(kind))
                  /\ \A p \in Packets : \A t \in Calls("trailer") : p < t)
    /\ [][\A kind \in {"v", "a"} :
            encNull[kind] >= 1 => Submitted(kind)' = Submitted(kind)]_vars
\* both encoders held a frame back until their Null and the trailer is
\* about to be written
C24_Witness ==
    /\ tpc = "finish"
    /\ params.careVideo /\ params.careAudio
    /\ codec.encDelay = 1
    /\ encNull = [v |-> 1, a |-> 1]
    /\ Len(vSubmitted) >= 2
    /\ Len(aSubmitted) >= 10
    /\ muxLog[Len(muxLog)].kind = "a"
    /\ muxLog[Len(muxLog)].encDts = aSubmitted[Len(aSubmitted)] - FrameSize

\* C25: the dts values written for one output stream are strictly
\* increasing: a packet whose rescaled dts is not greater than the dts
\* written before it for the same stream is moved up by one tick first.
C25_DtsStrictlyIncreasing ==
    \A k \in {0, 1} :
        LET written == SelectSeq(muxLog, LAMBDA c : c.op = "packet" /\ c.idx = k)
        IN  \A i \in 1..(Len(written) - 1) : written[i].dts < written[i + 1].dts
\* two video packets in a row were written with the same dts, each the
\* plain rescale of its encoder dts
C25_Witness ==
    /\ codec.muxer = "frame"
    /\ params.fps = 2
    /\ \E i \in Packets :
        /\ i + 1 \in Packets
        /\ muxLog[i].kind = "v" /\ muxLog[i + 1].kind = "v"
        /\ muxLog[i].encDts < muxLog[i + 1].encDts
        /\ muxLog[i].dts = muxLog[i + 1].dts

C27_NoVideoAfterDone ==
    [][(tpc \in {"iter", "audio", "test"} /\ limitHalf >= 1 /\ ret.v = -1)
         => (tpc' # "video" /\ vSubmitted' = vSubmitted)]_vars
\* C27, the case that holds: once the frame index has reached the frame
\* count at the end of a burst, no later iteration fetches a frame.
C27_NoVideoAfterAllFrames ==
    [][(tpc \in {"iter", "audio", "test"} /\ frameOffset >= frameCount)
         => (tpc' # "video" /\ vSubmitted' = vSubmitted)]_vars
\* a fetch failed in an earlier burst, and the burst of this iteration has
\* fetched and encoded a frame and returned 0
C27_Witness ==
    /\ fetchFailed
    /\ tpc = "audio"
    /\ ret.v = 0
    /\ limitHalf >= 2
    /\ vSubmitted # <<>>
    /\ vSubmitted[Len(vSubmitted)] = frameOffset - 1

\* C28: at the end of every iteration in which both bursts returned 0, the
\* video position frameOffset / fps and the audio position
\* audioOffset / 44100 are both past the limit, the video by at most two
\* frame intervals and the audio by at most what one packet gives out.
C28_InterleaveBounded ==
    (tpc = "test" /\ params.careVideo /\ params.careAudio /\ ret.v = 0 /\ ret.a = 0)
        => /\ 2 * frameOffset > limitHalf * params.fps
           /\ 2 * frameOffset <= limitHalf * params.fps + 4
           /\ 2 * audioOffset > limitHalf * SampleRate
           /\ \E n \in PktSamples :
                2 * audioOffset <= limitHalf * SampleRate + 2 * (n + FrameSize)
\* C28, what the code keeps: both positions are past the limit and the
\* audio is ahead by at most one packet; the video is ahead by at most two
\* frame intervals when a burst of half a second holds a frame (fps >= 2).
C28_InterleaveBoundedFromTwoFps ==
    (tpc = "test" /\ params.careVideo /\ params.careAudio /\ ret.v = 0 /\ ret.a = 0)
        => /\ 2 * frameOffset > limitHalf * params.fps
           /\ params.fps >= 2 => 2 * frameOffset <= limitHalf * params.fps + 4
           /\ 2 * audioOffset > limitHalf * SampleRate
           /\ \E n \in PktSamples :
                2 * audioOffset <= limitHalf * SampleRate + 2 * (n + FrameSize)
\* at 1 fps the third iteration (limit 1.5 s) ends with both bursts having
\* returned 0 and the video at 4 s
C28_Witness ==
    /\ tpc = "test"
    /\ ret = [v |-> 0, a |-> 0]
    /\ params.fps = 1
    /\ limitHalf = 3
    /\ frameOffset = 4
    /\ 2 * audioOffset > limitHalf * SampleRate

(***************************************************************************)
(*                     Part III: properties of the reader                 *)
(***************************************************************************)
\* C29: for a packet any Read overload returns: with a defined start_time
\* its pts is the pts of the container minus start_time; with an undefined
\* start_time the pts is the pts of the container; an absent pts stays
\* absent.
C29_PtsNormalised ==
    rd.st = "read" =>
        /\ (rd.pts # AV_NOPTS_VALUE /\ rd.start # AV_NOPTS_VALUE
                /\ rd.pts - rd.start \in Ts) => rd.out = rd.pts - rd.start
        /\ rd.start = AV_NOPTS_VALUE => rd.out = rd.pts
        /\ rd.pts = AV_NOPTS_VALUE => rd.out = AV_NOPTS_VALUE
\* C29, what the code keeps: pts and start_time both defined give the
\* difference, by every overload; an undefined start_time leaves the pts
\* alone in Read(EyerAVPacket &) only.
C29_PtsNormalisedWhenDefined ==
    rd.st = "read" =>
        /\ (rd.pts # AV_NOPTS_VALUE /\ rd.start # AV_NOPTS_VALUE
                /\ rd.pts - rd.start \in Ts) => rd.out = rd.pts - rd.start
        /\ (rd.start = AV_NOPTS_VALUE /\ rd.by = "reference") => rd.out = rd.pts
\* Read(EyerAVPacket &) has returned a packet whose pts was absent in the
\* file, with a pts: the stream starts at -3
C29_Witness ==
    /\ rd.st = "read"
    /\ rd.by = "reference"
    /\ rd.pts = AV_NOPTS_VALUE
    /\ rd.start = -3
    /\ rd.out = AV_NOPTS_VALUE + 3

(***************************************************************************)
(*                 Part II: properties of a disabled stream kind          *)
(***************************************************************************)
\* C30: for a kind the parameters do not care about (careVideo or careAudio
\* is false) the writer gets no stream, no burst and no flush runs (no frame
\* is fetched or encoded, no packet is read, no encoder gets the Null), and
\* no packet of that kind is written, whatever streams the source has.
C30_DisabledKindUntouched ==
    \A kind \in {"v", "a"} :
        ~Care(kind) =>
            /\ streamIdx[kind] < 0
            /\ Submitted(kind) = <<>>
            /\ encq[kind] = <<>>
            /\ encNull[kind] = 0
            /\ \A p \in Packets : muxLog[p].kind # kind
            /\ kind = "v" => (tpc # "video" /\ ret.v = -1 /\ frameOffset = 0
                                /\ ~fetchFailed)
            /\ kind = "a" => (reads = 0 /\ pulled = 0 /\ ~decNull /\ ret.a = -1
                                /\ audioOffset = 0)
\* a source with both streams was transcoded to the end with the video
\* disabled: the output has the audio stream at index 0 and audio packets
C30_Witness ==
    /\ tpc = "done"
    /\ ~params.careVideo
    /\ params.careAudio
    /\ input.hasVideo
    /\ input.hasAudio
    /\ input.dur > 0
    /\ streamIdx = [v |-> -1, a |-> 0]
    /\ Len(aSubmitted) >= 10
    /\ encNull = [v |-> 0, a |-> 1]
    /\ \E p \in Packets : muxLog[p].kind = "a"

(***************************************************************************)
(*              Part IV: properties of a task's configuration             *)
(***************************************************************************)
\* C31: the parameters and the output path of a task are fixed when it is
\* started: while the task is ING no handler of the window (dialog closed,
\* directory chosen, a pass entered) changes what its thread holds, the
\* transcoder of a running worker has what was handed over at the start,
\* and nothing changes it while run() is in progress.
C31_RunningConfigFixed ==
    /\ []((jc.st = ING /\ jc.th = "running") => jc.xc = jc.handed)
    /\ [][/\ (jc.st = ING /\ jc'.st = ING) => jc'.thr = jc.thr
          /\ (jc.th = "running" /\ jc'.th = "running") => jc'.xc = jc.xc]_vars
\* a worker is running with the parameters and the directory of its start
\* while the window has other parameters and another directory
C31_Witness ==
    /\ jc.st = ING
    /\ jc.th = "running"
    /\ jc.xc = jc.handed
    /\ jc.xc.p # NoParams
    /\ jc.win.p # jc.xc.p
    /\ jc.win.dir # jc.xc.out.dir

(***************************************************************************)
(*                  Part V: properties of the audio encoder               *)
(***************************************************************************)
\* C32: for every audio codec and every sample rate, after Init the time
\* base of the encoder, as GetTimebase returns it, is 1 / sample_rate.
C32_AudioTimebaseIsSampleRate ==
    en.st = "asked" => en.got = [num |-> 1, den |-> en.sample_rate]
\* C32, what the code keeps: the AAC and the Opus branch of Init set it
C32_AacOpusTimebaseIsSampleRate ==
    (en.st = "asked" /\ en.codecId \in {"AAC", "LIB_OPUS"})
        => en.got = [num |-> 1, den |-> en.sample_rate]
\* the MP3 encoder of the transcoder (44100 Hz) was opened and returns the
\* time base its context was allocated with
C32_Witness ==
    /\ en.st = "asked"
    /\ en.codecId = "MP3"
    /\ en.sample_rate = 44100
    /\ en.ret = 0
    /\ en.got = AllocTimebase

C34_RejectedStartNoEffect ==
    /\ []((~outputDirSet \/ Len(layout) = 0) => CountStatus(FAIL) = 0)
    /\ [][(StartTranscodeClickListener /\ (~outputDirSet \/ Len(layout) = 0))
            => (status' = status /\ wk' = wk /\ hist' = hist /\ pcMain' = "idle")]_vars
\* the start button was pressed with tasks in the list and no output
\* directory: every task is as it was created
C34_Witness ==
    /\ clicked
    /\ ~outputDirSet
    /\ pcMain = "idle"
    /\ Len(layout) = MaxJobs
    /\ \A id \in JobIds : status[id] = PREPARE /\ hist[id] = "fresh" /\ wk[id] = "idle"

\* C35: whenever a task is set to ING, the run() of its thread is not in
\* progress and the start begins one; and no task of the list is ING while
\* its thread is not running.
C35_StartFindsNoRunInProgress ==
    /\ [][\A id \in JobIds :
            (status[id] # ING /\ status'[id] = ING)
                => (wk[id] = "idle" /\ wk'[id] = "run")]_vars
    /\ [](\A id \in JobIds : (InLayout(id) /\ status[id] = ING) => wk[id] # "idle")
\* what holds: the first start of a task finds its thread not running and
\* begins one execution of run()
C35_FirstStartBeginsRun ==
    [][\A id \in JobIds :
            (status[id] # ING /\ status'[id] = ING /\ hist[id] = "fresh")
                => (wk[id] = "idle" /\ wk'[id] = "run")]_vars
\* a task that reported FAIL was reset and started again before its run()
\* returned; run() has returned since and the task is still ING
C35_Witness ==
    \E id \in JobIds :
        /\ InLayout(id)
        /\ status[id] = ING
        /\ hist[id] = "restarted"
        /\ wk[id] = "idle"

\* C36: Stop() waits with the flag set and the mutex released, and has
\* returned only when run() is not in progress; a call of interrupt() that
\* began after the flag was set returns true; a Stop() that has begun
\* returns, and a call of interrupt() that has begun returns.
C36_StopIsSafeJoin ==
    /\ [](sj.mpc = "wait" => (sj.flag /\ sj.mut # "main"))
    /\ [](sj.mpc = "returned" => sj.wpc \in {"new", "finished"})
    /\ []((sj.after /\ sj.res # "none") => sj.res = "true")
    /\ (sj.mpc = "locked") ~> (sj.mpc = "returned")
    /\ (sj.wpc = "enter") ~> (sj.wpc = "work")
\* Stop() was called while run() was in progress and has returned; the last
\* call of interrupt() began after the flag was set and returned true; a
\* signal of the worker is still queued
C36_Witness ==
    /\ sj.mpc = "returned"
    /\ sj.wpc = "finished"
    /\ sj.after
    /\ sj.res = "true"
    /\ sj.q > 0

\* C37: a run with audio enabled sends the audio decoder the Null packet,
\* and drains it, exactly once: never more than once while the run goes
\* on, and once when the run is done.
C37_NullSentExactlyOnce ==
    /\ nullCalls <= 1
    /\ (tpc = "done" /\ params.careAudio) => nullCalls = 1
\* what holds: a finished run with audio enabled has sent the Null packet
\* at least once, and exactly once when video is not transcoded
C37_NullSentAtLeastOnce ==
    (tpc = "done" /\ params.careAudio)
        => (nullCalls >= 1 /\ (~params.careVideo => nullCalls = 1))
\* a finished run with audio and video in which the Null packet was sent
\* in more than one iteration
C37_Witness ==
    /\ tpc = "done"
    /\ params.careAudio
    /\ params.careVideo
    /\ nullCalls >= 2
    /\ ~sentAfterNull

\* C38: parsing ToJson(p) into a default-constructed object gives back
\* every persisted field of p.
C38_RoundTrip == cf.st = "parsed" => (cf.ret = 0 /\ cf.q = cf.p)
\* what holds: every persisted field but the two thread numbers is given
\* back; the decoder thread number becomes p's encoder thread number and
\* the encoder thread number stays the default
C38_RoundTripButThreadNums ==
    cf.st = "parsed" =>
        /\ cf.ret = 0
        /\ [cf.q EXCEPT !.dec = cf.p.dec, !.enc = cf.p.enc] = cf.p
        /\ cf.q.dec = cf.p.enc
        /\ cf.q.enc = DefaultParams.enc
\* a parameter set with different thread numbers, none the default, was
\* written and read back
C38_Witness ==
    /\ cf.st = "parsed"
    /\ cf.p.dec # cf.p.enc
    /\ cf.p.enc # DefaultParams.enc
    /\ cf.q.dec = cf.p.enc
    /\ cf.q.enc = DefaultParams.enc
====
